---- MODULE Spec2Model ----
(***************************************************************************)
(* Model of pipf (src/pipf.py): a linear script that wraps pipenv.  One    *)
(* behaviour of the model is one invocation of the script.  The inputs of  *)
(* an invocation (process environment, command line, contents of the       *)
(* virtualenv storage root, presence of ./Pipfile, terminal size) are      *)
(* drawn in Init; the actions are the script's top-level statements in     *)
(* source order, plus the asynchronous delivery of SIGWINCH.               *)
(*                                                                         *)
(* Strings that the code inspects character by character (environment      *)
(* names, marker-file contents) are sequences of one-character strings.    *)
(* args.name absent (None) and args.name empty are both <<>>: the code     *)
(* only ever tests it with "not".                                          *)
(***************************************************************************)
EXTENDS Integers, Sequences, FiniteSets, TLC

\* ---------------------------------------------------------------- bounds
MaxCmdLen == 2
MaxResizes == 1

\* ------------------------------------------------------- value domains
None == "<None>"
NoneStatus == -1
NL == "\n"

Tokens == {"shell", "install", "requests"}
DirFA == <<"f", "a">>
DirFB == <<"f", "b">>
AllDirs == {DirFA, DirFB}
Names == {<<>>, <<"f">>, <<"f", "a">>, <<"g">>}
ProjA == <<"p">>
ProjB == <<"q">>
DefaultRoot == "~/.local/share/virtualenvs"
DefaultWinsize == <<24, 80>>
TermSizes == {<<24, 80>>, <<50, 120>>}
ChildEnds == {[kind |-> "exit", n |-> 0], [kind |-> "exit", n |-> 3],
              [kind |-> "signal", n |-> 9]}

RECURSIVE SeqsUpTo(_, _)
SeqsUpTo(S, n) ==
    IF n = 0 THEN {<<>>}
    ELSE LET shorter == SeqsUpTo(S, n - 1)
         IN shorter \cup {Append(s, x) : s \in {t \in shorter : Len(t) = n - 1}, x \in S}

Commands == SeqsUpTo(Tokens, MaxCmdLen) \ {<<>>}

\* ------------------------------------------------------------ os.environ
EmptyEnviron == [k \in {} |-> ""]

getenv(env, k) == IF k \in DOMAIN env THEN env[k] ELSE None

setenv(env, k, v) == [x \in (DOMAIN env) \cup {k} |-> IF x = k THEN v ELSE env[x]]

popenv(env, k) == [x \in (DOMAIN env) \ {k} |-> env[x]]

Truthy(v) == v # None /\ v # ""

\* lines 121-124
MarkActive(env) == popenv(setenv(env, "PIPENV_ACTIVE", "1"), "PIP_SHIMS_BASE_MODULE")

\* temp_environ, line 28
TempEnvironEnter(env) == env

TempEnvironExitCleared(snapshot) == EmptyEnviron

\* temp_environ, lines 31-33: clear() then update(snapshot)
TempEnvironExit(snapshot) == snapshot

VenvInProjectWrongVar(env) == Truthy(getenv(env, "PIPENV_ACTIVE"))

\* line 16
VenvInProject(env) == Truthy(getenv(env, "PIPENV_VENV_IN_PROJECT"))

\* Python's == between a str (or None) and an int: never equal
StrEqInt(s, i) == FALSE

\* line 74: os.getenv returns a str or None, compared here with the int 1
is_pipenv_venv_active(env) == StrEqInt(getenv(env, "PIPENV_ACTIVE"), 1)

\* ------------------------------------------------------ pure helpers
IsPrefix(p, s) == Len(p) <= Len(s) /\ SubSeq(s, 1, Len(p)) = p

\* Path.glob(envname + "*"): the entries whose name starts with envname
Glob(dirs, envname) == {d \in dirs : IsPrefix(envname, d)}

RECURSIVE readline(_)
readline(s) ==
    IF s = <<>> THEN <<>>
    ELSE IF Head(s) = NL THEN <<NL>>
    ELSE <<Head(s)>> \o readline(Tail(s))

BuildCmdFirstOnly(command) == <<"pipenv", command[1]>>

\* lines 147-148
BuildCmd(command) == <<"pipenv">> \o command

\* exit status of the interpreter for SystemExit(code)
ExitCode(code) == IF code = NoneStatus THEN 0 ELSE code

\* pexpect: exitstatus is the exit code, or None when a signal ended the child
PexpectExitstatus(end) == IF end.kind = "exit" THEN end.n ELSE NoneStatus

NoPath == [root |-> "", name |-> <<>>]

\* lines 36-55
get_env_dir(envname, env, dirs) ==
    IF envname = <<>>
    THEN [kind |-> "ok", pathobj |-> FALSE,
          path |-> [root |-> getenv(env, "VIRTUAL_ENV"), name |-> <<>>],
          events |-> <<"getenv VIRTUAL_ENV">>]
    ELSE LET environments_root ==
                 IF Truthy(getenv(env, "WORKON_HOME"))
                 THEN getenv(env, "WORKON_HOME") ELSE DefaultRoot
             env_path == Glob(dirs, envname)
         IN IF Cardinality(env_path) > 1
            THEN [kind |-> "exit", pathobj |-> TRUE, path |-> NoPath,
                  events |-> <<"getenv WORKON_HOME", "glob", "print ambiguous">>]
            ELSE IF env_path = {}
            THEN [kind |-> "IndexError", pathobj |-> TRUE, path |-> NoPath,
                  events |-> <<"getenv WORKON_HOME", "glob">>]
            ELSE [kind |-> "ok", pathobj |-> TRUE,
                  path |-> [root |-> environments_root,
                            name |-> CHOOSE d \in env_path : TRUE],
                  events |-> <<"getenv WORKON_HOME", "glob">>]

\* lines 58-67
get_working_dir(envname, env, dirs, markers) ==
    LET r == get_env_dir(envname, env, dirs)
    IN IF r.kind # "ok" THEN [kind |-> r.kind, dir |-> <<>>, events |-> r.events]
       ELSE IF ~r.pathobj
       THEN [kind |-> "TypeError", dir |-> <<>>, events |-> r.events]
       ELSE IF r.path.name \notin DOMAIN markers
       THEN [kind |-> "FileNotFoundError", dir |-> <<>>,
             events |-> r.events \o <<"open .project">>]
       ELSE [kind |-> "ok", dir |-> readline(markers[r.path.name]),
             events |-> r.events \o <<"open .project">>]

\* ------------------------------------------------------------------ state
VARIABLES
    environ,        \* os.environ
    argv,           \* the command line: [name, command]
    envDirs,        \* entries of the virtualenv storage root
    marker,         \* contents of <entry>/.project, where the file exists
    pipfile,        \* whether ./Pipfile exists
    termSize,       \* the controlling terminal's (lines, columns)
    pc,             \* position in the script
    parsed,         \* parse_args has run
    args,           \* argparse namespace
    in_correct_dir, \* line 105
    cmd,            \* line 147
    dims,           \* line 127
    snapshot,       \* temp_environ's local "environ"
    envshell,       \* the pexpect.spawn object
    handler,        \* SIGWINCH disposition is sigwinch_passthrough
    children,       \* child processes started, in order
    trace,          \* observable steps, in order
    exc,            \* what ended the script
    exitStatus,     \* exit status of the process
    branch,         \* which dispatcher branch was taken
    entryEnviron,   \* os.environ when line 120 was evaluated
    childEnd,       \* how the child shell ended
    resizes         \* number of terminal resizes so far

vars == <<environ, argv, envDirs, marker, pipfile, termSize, pc, parsed, args,
          in_correct_dir, cmd, dims, snapshot, envshell, handler, children,
          trace, exc, exitStatus, branch, entryEnviron, childEnd, resizes>>

inputs == <<argv, envDirs, marker, pipfile>>

NoShell == [spawned |-> FALSE, closed |-> FALSE, winsize |-> <<0, 0>>,
            input |-> <<>>, exitstatus |-> NoneStatus]

NoEnd == [kind |-> "running", n |-> 0]

Environs ==
    { [k \in S |-> CASE k = "PIPENV_VENV_IN_PROJECT" -> vip
                     [] k = "PIPENV_ACTIVE" -> "1"
                     [] k = "VIRTUAL_ENV" -> "/w/fa"
                     [] k = "PIP_SHIMS_BASE_MODULE" -> "pip._internal"
                     [] k = "WORKON_HOME" -> "/w"] :
        vip \in {"", "1"},
        S \in {T \in SUBSET {"PIPENV_VENV_IN_PROJECT", "PIPENV_ACTIVE", "VIRTUAL_ENV",
                             "PIP_SHIMS_BASE_MODULE", "WORKON_HOME"} :
                 ("PIPENV_ACTIVE" \in T) <=> ("VIRTUAL_ENV" \in T)} }

\* storage roots: fa alone (marker missing, without or with a final newline),
\* or fa and fb together
Filesystems ==
    { [dirs |-> {DirFA}, marker |-> [d \in {} |-> <<>>]],
      [dirs |-> {DirFA}, marker |-> [d \in {DirFA} |-> ProjA]],
      [dirs |-> {DirFA}, marker |-> [d \in {DirFA} |-> ProjA \o <<NL>>]],
      [dirs |-> AllDirs, marker |-> [d \in AllDirs |-> IF d = DirFA THEN ProjA ELSE ProjB]] }

Init ==
    /\ environ \in Environs
    /\ argv \in [name : Names, command : Commands]
    /\ \E f \in Filesystems : envDirs = f.dirs /\ marker = f.marker
    /\ pipfile \in BOOLEAN
    /\ termSize \in TermSizes
    /\ pc = "start"
    /\ parsed = FALSE
    /\ args = [name |-> <<>>, command |-> <<>>]
    /\ in_correct_dir = FALSE
    /\ cmd = <<>>
    /\ dims = <<0, 0>>
    /\ snapshot = EmptyEnviron
    /\ envshell = NoShell
    /\ handler = FALSE
    /\ children = <<>>
    /\ trace = <<>>
    /\ exc = ""
    /\ exitStatus = NoneStatus
    /\ branch = ""
    /\ entryEnviron = EmptyEnviron
    /\ childEnd = NoEnd
    /\ resizes = 0

\* ---------------------------------------------------------------- actions

\* lines 16-20
CheckVenvInProject ==
    /\ pc = "start"
    /\ IF VenvInProject(environ)
       THEN /\ trace' = Append(trace, "print unsupported")
            /\ exc' = "SystemExit"
            /\ exitStatus' = ExitCode(NoneStatus)
            /\ pc' = "exited"
       ELSE /\ pc' = "parse"
            /\ UNCHANGED <<trace, exc, exitStatus>>
    /\ UNCHANGED <<environ, inputs, termSize, parsed, args, in_correct_dir, cmd, dims,
                   snapshot, envshell, handler, children, branch, entryEnviron,
                   childEnd, resizes>>

\* lines 86-102
ParseArgs ==
    /\ pc = "parse"
    /\ args' = [name |-> argv.name, command |-> argv.command]
    /\ parsed' = TRUE
    /\ trace' = Append(trace, "parse_args")
    /\ pc' = "dircheck"
    /\ UNCHANGED <<environ, inputs, termSize, in_correct_dir, cmd, dims, snapshot,
                   envshell, handler, children, exc, exitStatus, branch, entryEnviron,
                   childEnd, resizes>>

\* lines 105-116
CheckCorrectDir ==
    /\ pc = "dircheck"
    /\ IF ~is_pipenv_venv_active(environ) /\ args.name = <<>>
       THEN IF pipfile
            THEN /\ in_correct_dir' = TRUE
                 /\ trace' = trace \o <<"Pipfile check", "warn">>
                 /\ pc' = "dispatch"
                 /\ UNCHANGED <<exc, exitStatus>>
            ELSE /\ trace' = Append(trace, "Pipfile check")
                 /\ exc' = "EnvironmentError"
                 /\ exitStatus' = 1
                 /\ pc' = "exited"
                 /\ UNCHANGED in_correct_dir
       ELSE /\ pc' = "dispatch"
            /\ UNCHANGED <<in_correct_dir, trace, exc, exitStatus>>
    /\ UNCHANGED <<environ, inputs, termSize, parsed, args, cmd, dims, snapshot,
                   envshell, handler, children, branch, entryEnviron, childEnd, resizes>>

\* lines 120-127 and 146-148
Dispatch ==
    /\ pc = "dispatch"
    /\ entryEnviron' = environ
    /\ IF args.command[1] = "shell" /\ args.name # <<>>
       THEN /\ branch' = "shell"
            /\ environ' = MarkActive(environ)
            /\ dims' = termSize
            /\ pc' = "with"
            /\ UNCHANGED cmd
       ELSE /\ branch' = "forward"
            /\ cmd' = BuildCmd(args.command)
            /\ pc' = "forward"
            /\ UNCHANGED <<environ, dims>>
    /\ UNCHANGED <<inputs, termSize, parsed, args, in_correct_dir, snapshot, envshell,
                   handler, children, trace, exc, exitStatus, childEnd, resizes>>

\* line 129
EnterTempEnviron ==
    /\ pc = "with"
    /\ snapshot' = TempEnvironEnter(environ)
    /\ pc' = "spawn"
    /\ UNCHANGED <<environ, inputs, termSize, parsed, args, in_correct_dir, cmd, dims,
                   envshell, handler, children, trace, exc, exitStatus, branch,
                   entryEnviron, childEnd, resizes>>

\* line 130; pexpect raises when $SHELL cannot be executed
Spawn ==
    /\ pc = "spawn"
    /\ \E executable \in BOOLEAN :
         IF executable
         THEN /\ envshell' = [NoShell EXCEPT !.spawned = TRUE, !.winsize = DefaultWinsize]
              /\ children' = Append(children, [kind |-> "pty", argv |-> <<"$SHELL", "-i">>,
                                               cwd |-> <<>>])
              /\ trace' = Append(trace, "spawn")
              /\ pc' = "sendline"
              /\ UNCHANGED <<environ, exc, exitStatus>>
         ELSE /\ environ' = TempEnvironExit(snapshot)
              /\ exc' = "ExceptionPexpect"
              /\ exitStatus' = 1
              /\ pc' = "exited"
              /\ UNCHANGED <<envshell, children, trace>>
    /\ UNCHANGED <<inputs, termSize, parsed, args, in_correct_dir, cmd, dims, snapshot,
                   handler, branch, entryEnviron, childEnd, resizes>>

\* line 131
Sendline ==
    /\ pc = "sendline"
    /\ LET r == get_env_dir(args.name, environ, envDirs)
       IN /\ trace' = trace \o r.events
          /\ IF r.kind = "ok"
             THEN /\ envshell' = [envshell EXCEPT !.input = Append(@, r.path)]
                  /\ pc' = "signal"
                  /\ UNCHANGED <<environ, exc, exitStatus>>
             ELSE /\ environ' = TempEnvironExit(snapshot)
                  /\ exc' = IF r.kind = "exit" THEN "SystemExit" ELSE r.kind
                  /\ exitStatus' = IF r.kind = "exit" THEN ExitCode(NoneStatus) ELSE 1
                  /\ pc' = "exited"
                  /\ UNCHANGED envshell
    /\ UNCHANGED <<inputs, termSize, parsed, args, in_correct_dir, cmd, dims, snapshot,
                   handler, children, branch, entryEnviron, childEnd, resizes>>

\* line 140
InstallHandler ==
    /\ pc = "signal"
    /\ handler' = TRUE
    /\ pc' = "interact"
    /\ UNCHANGED <<environ, inputs, termSize, parsed, args, in_correct_dir, cmd, dims,
                   snapshot, envshell, children, trace, exc, exitStatus, branch,
                   entryEnviron, childEnd, resizes>>

\* line 142: the relay returns when the child shell has ended
Interact ==
    /\ pc = "interact"
    /\ \E e \in ChildEnds : childEnd' = e
    /\ pc' = "close"
    /\ UNCHANGED <<environ, inputs, termSize, parsed, args, in_correct_dir, cmd, dims,
                   snapshot, envshell, handler, children, trace, exc, exitStatus, branch,
                   entryEnviron, resizes>>

\* line 143
Close ==
    /\ pc = "close"
    /\ envshell' = [envshell EXCEPT !.closed = TRUE,
                                    !.exitstatus = PexpectExitstatus(childEnd)]
    /\ trace' = Append(trace, "close")
    /\ pc' = "sysexit"
    /\ UNCHANGED <<environ, inputs, termSize, parsed, args, in_correct_dir, cmd, dims,
                   snapshot, handler, children, exc, exitStatus, branch, entryEnviron,
                   childEnd, resizes>>

\* line 144, leaving the with block of line 129
SysExit ==
    /\ pc = "sysexit"
    /\ environ' = TempEnvironExit(snapshot)
    /\ exc' = "SystemExit"
    /\ exitStatus' = ExitCode(envshell.exitstatus)
    /\ pc' = "exited"
    /\ UNCHANGED <<inputs, termSize, parsed, args, in_correct_dir, cmd, dims, snapshot,
                   envshell, handler, children, trace, branch, entryEnviron, childEnd,
                   resizes>>

\* lines 150-153, then the end of the script
Forward ==
    /\ pc = "forward"
    /\ IF ~in_correct_dir
       THEN LET r == get_working_dir(args.name, environ, envDirs, marker)
            IN IF r.kind = "ok"
               THEN /\ children' = Append(children, [kind |-> "run", argv |-> cmd,
                                                     cwd |-> r.dir])
                    /\ trace' = trace \o r.events \o <<"run">>
                    /\ exc' = ""
                    /\ exitStatus' = 0
               ELSE /\ trace' = trace \o r.events
                    /\ exc' = IF r.kind = "exit" THEN "SystemExit" ELSE r.kind
                    /\ exitStatus' = IF r.kind = "exit" THEN ExitCode(NoneStatus) ELSE 1
                    /\ UNCHANGED children
       ELSE /\ children' = Append(children, [kind |-> "run", argv |-> cmd, cwd |-> <<>>])
            /\ trace' = Append(trace, "run")
            /\ exc' = ""
            /\ exitStatus' = 0
    /\ pc' = "exited"
    /\ UNCHANGED <<environ, inputs, termSize, parsed, args, in_correct_dir, cmd, dims,
                   snapshot, envshell, handler, branch, entryEnviron, childEnd, resizes>>

ShellPcs == {"with", "spawn", "sendline", "signal", "interact", "close", "sysexit"}

\* The terminal is resized and SIGWINCH is delivered.  Before line 140 the
\* signal has its default disposition (ignored); afterwards lines 136-138 run.
\* setwinsize on a closed pty raises in the main thread, inside the with block.
Sigwinch ==
    /\ pc \in ShellPcs
    /\ resizes < MaxResizes
    /\ resizes' = resizes + 1
    /\ \E sz \in TermSizes \ {termSize} :
         /\ termSize' = sz
         /\ IF ~handler
            THEN UNCHANGED <<environ, envshell, exc, exitStatus, pc>>
            ELSE IF ~envshell.closed
            THEN /\ envshell' = [envshell EXCEPT !.winsize = sz]
                 /\ UNCHANGED <<environ, exc, exitStatus, pc>>
            ELSE /\ environ' = TempEnvironExit(snapshot)
                 /\ exc' = "OSError"
                 /\ exitStatus' = 1
                 /\ pc' = "exited"
                 /\ UNCHANGED envshell
    /\ UNCHANGED <<inputs, parsed, args, in_correct_dir, cmd, dims, snapshot, handler,
                   children, trace, branch, entryEnviron, childEnd>>

Next ==
    \/ CheckVenvInProject
    \/ ParseArgs
    \/ CheckCorrectDir
    \/ Dispatch
    \/ EnterTempEnviron
    \/ Spawn
    \/ Sendline
    \/ InstallHandler
    \/ Interact
    \/ Close
    \/ SysExit
    \/ Forward
    \/ Sigwinch

Spec == Init /\ [][Next]_vars

\* ------------------------------------------------------------- properties

LastEvent == IF trace = <<>> THEN "" ELSE trace[Len(trace)]

Resolved == CHOOSE d \in Glob(envDirs, argv.name) : TRUE

\* C1 (as stated): on every exit from the interactive-shell branch os.environ
\* equals os.environ as it was before the branch was entered, i.e. before
\* PIPENV_ACTIVE was set and PIP_SHIMS_BASE_MODULE was removed.
C1_EnvironAsBeforeEntry ==
    (branch = "shell" /\ pc = "exited") => environ = entryEnviron

\* C1 (amended): on every exit from the interactive-shell branch os.environ
\* equals the environment before entry with PIPENV_ACTIVE set to "1" and
\* PIP_SHIMS_BASE_MODULE removed, which is what temp_environ captured.
C1_EnvironAsSnapshotted ==
    (branch = "shell" /\ pc = "exited") =>
        environ = [k \in ((DOMAIN entryEnviron) \cup {"PIPENV_ACTIVE"})
                             \ {"PIP_SHIMS_BASE_MODULE"} |->
                       IF k = "PIPENV_ACTIVE" THEN "1" ELSE entryEnviron[k]]

C1_Witness ==
    /\ branch = "shell" /\ pc = "exited" /\ envshell.closed /\ exc = "SystemExit"
    /\ "PIP_SHIMS_BASE_MODULE" \in DOMAIN entryEnviron
    /\ "PIPENV_ACTIVE" \notin DOMAIN entryEnviron

\* C2: a termination caused by an ambiguous name or by the unsupported
\* venv-in-project configuration ends the process with a nonzero exit status.
C2_EarlyExitIsFailure ==
    (pc = "exited" /\ LastEvent \in {"print ambiguous", "print unsupported"}) =>
        exitStatus # 0

\* C3: a failure of environment resolution (no match, ambiguous name, missing
\* marker file) happens before any child process has been spawned.
C3_NoChildWhenResolutionFails ==
    (pc = "exited" /\ (exc \in {"IndexError", "FileNotFoundError"}
                       \/ LastEvent = "print ambiguous")) =>
        children = <<>>

\* C4 (as stated): whenever PIPENV_VENV_IN_PROJECT is set, the process prints
\* its message and terminates before argument parsing, before any environment
\* resolution and before any child process is spawned.
C4_SetVenvInProjectAborts ==
    ("PIPENV_VENV_IN_PROJECT" \in DOMAIN environ) =>
        \/ pc = "start" /\ trace = <<>>
        \/ /\ pc = "exited" /\ trace = <<"print unsupported">>
           /\ ~parsed /\ children = <<>>

\* C4 (amended): whenever PIPENV_VENV_IN_PROJECT is set to a non-empty value,
\* the process prints its message and terminates before argument parsing,
\* before any environment resolution and before any child process is spawned.
C4_NonEmptyVenvInProjectAborts ==
    ("PIPENV_VENV_IN_PROJECT" \in DOMAIN environ
     /\ environ["PIPENV_VENV_IN_PROJECT"] # "") =>
        \/ pc = "start" /\ trace = <<>>
        \/ /\ pc = "exited" /\ trace = <<"print unsupported">>
           /\ ~parsed /\ children = <<>>

C4_Witness ==
    /\ pc = "exited" /\ trace = <<"print unsupported">>
    /\ environ["PIPENV_VENV_IN_PROJECT"] = "1"
    /\ argv.name = <<"f", "a">> /\ argv.command = <<"shell", "install">>

\* C5: command ["shell"] without --name while PIPENV_ACTIVE is set never
\* enters the interactive-shell branch and runs [pipenv, "shell"] in the
\* forward branch.
C5_ShellWithoutNameIsForwarded ==
    (pc = "exited" /\ parsed /\ argv.command = <<"shell">> /\ argv.name = <<>>
     /\ "PIPENV_ACTIVE" \in DOMAIN environ) =>
        /\ branch = "forward"
        /\ Len(children) = 1
        /\ children[1].kind = "run"
        /\ children[1].argv = <<"pipenv", "shell">>

\* C6: with no name and PIPENV_ACTIVE set, the environment directory is taken
\* from VIRTUAL_ENV, with no lookup under the storage root and no Pipfile
\* check, and gives the working directory of the forwarded command.
C6_ActiveEnvUsesVirtualEnv ==
    (pc = "exited" /\ parsed /\ argv.name = <<>>
     /\ "PIPENV_ACTIVE" \in DOMAIN environ) =>
        /\ \E i \in 1..Len(trace) : trace[i] = "getenv VIRTUAL_ENV"
        /\ \A i \in 1..Len(trace) : trace[i] \notin {"glob", "Pipfile check"}

\* C7: for a marker file whose first line ends with a newline, get_working_dir
\* returns the path without the newline.
C7_WorkingDirHasNoNewline ==
    (pc = "exited" /\ branch = "forward" /\ ~in_correct_dir /\ children # <<>>) =>
        LET m == marker[Resolved]
        IN m[Len(m)] = NL => children[1].cwd = SubSeq(m, 1, Len(m) - 1)

C9_ExitStatusIsChildStatus ==
    (pc = "exited" /\ envshell.closed /\ exc = "SystemExit") =>
        /\ exitStatus = IF childEnd.kind = "exit" THEN childEnd.n ELSE 128 + childEnd.n
        /\ \A i \in 1..Len(children) : children[i].kind # "run"

\* C10: from the spawn of the child pty until it is closed, the child's
\* window size is the terminal's current size: the captured size while no
\* resize has occurred, and the new size after every resize.
C10_ChildSizeTracksTerminal ==
    (envshell.spawned /\ ~envshell.closed) => envshell.winsize = termSize

====
